---- MODULE Spec2Model ----
(***************************************************************************)
(* Model of the task tracker in src/main.py: the Task record, the          *)
(* TaskManager store (load, save, find, create, update, delete, mark,      *)
(* list) and the command dispatch of main().                               *)
(*                                                                         *)
(* The backing file is modelled by what it holds: nothing (missing), bytes *)
(* that are not UTF-8, text that is not JSON, or a JSON value.  A JSON     *)
(* object is the set of its <<key, value>> pairs; field values are         *)
(* strings.  uuid.uuid4() is modelled by its contract: a value that was    *)
(* never issued before.  The clock has one-second resolution and may tick  *)
(* before every reading.                                                   *)
(***************************************************************************)
EXTENDS Integers, Sequences, FiniteSets, TLC

\* ------------------------------------------------------------------ bounds
MaxTasks == 2
MaxClock == 1
MaxUUIDs == 3
MaxSteps == 3

\* --------------------------------------------------------- program values
None == "<None>"

Statuses == {"todo", "in-progress", "done"}

Descriptions == {"buy milk", "call bob", "café"}

\* The texts that json.dump(ensure_ascii=False) writes with bytes beyond
\* ASCII: UTF-8 spends several bytes on one of their characters.
NonAscii == {"café"}

uuid(i) == "uuid-" \o ToString(i)

UUIDs == {uuid(i) : i \in 1..MaxUUIDs}

\* uuid.uuid4(): a value never issued before.  The ids are opaque to the
\* program, so the model takes the first of the pool that is left.
uuid4(is) ==
    uuid(CHOOSE i \in 1..MaxUUIDs :
            /\ uuid(i) \notin is
            /\ \A j \in 1..(i - 1) : uuid(j) \in is)

Ticks == 0..1

IOOutcomes == {"ok", "denied", "partial", "torn"}

FieldNames == {"id", "description", "status", "createdAt", "updatedAt"}

\* ------------------------------------------------------------------ clock
TwoDigits(k) ==
    LET d == <<"0", "1", "2", "3", "4", "5", "6", "7", "8", "9">>
    IN  d[(k \div 10) + 1] \o d[(k % 10) + 1]

\* datetime.datetime.now().strftime("%Y-%m-%d %H:%M:%S"), the clock counted
\* in seconds from 2024-01-01 00:00:00 (within the first hour).
strftime(n) ==
    "2024-01-01 00:" \o TwoDigits((n \div 60) % 60) \o ":" \o TwoDigits(n % 60)

\* The second a timestamp names: strftime read backwards.
strptime(s) == CHOOSE n \in 0..MaxClock : strftime(n) = s

\* ------------------------------------------------------------ record model
\* Task.__init__ with the uuid4() call as the default value of the id
\* parameter: evaluated once, every task without an id gets the same one.
Task_init_default_once(description, id, status, createdAt, updatedAt, fresh, c1, c2) ==
    [id          |-> IF id # None THEN id ELSE uuid(1),
     description |-> description,
     status      |-> status,
     createdAt   |-> IF createdAt # None THEN createdAt ELSE strftime(c1),
     updatedAt   |-> IF updatedAt # None THEN updatedAt ELSE strftime(c2)]

\* Task.__init__ that sets updatedAt before createdAt.
Task_init_updated_first(description, id, status, createdAt, updatedAt, fresh, c1, c2) ==
    [id          |-> IF id # None THEN id ELSE fresh,
     description |-> description,
     status      |-> status,
     createdAt   |-> IF createdAt # None THEN createdAt ELSE strftime(c2),
     updatedAt   |-> IF updatedAt # None THEN updatedAt ELSE strftime(c1)]

Task_init(description, id, status, createdAt, updatedAt, fresh, c1, c2) ==
    [id          |-> IF id # None THEN id ELSE fresh,
     description |-> description,
     status      |-> status,
     createdAt   |-> IF createdAt # None THEN createdAt ELSE strftime(c1),
     updatedAt   |-> IF updatedAt # None THEN updatedAt ELSE strftime(c2)]

to_dict(task) ==
    {<<"id", task.id>>, <<"description", task.description>>,
     <<"status", task.status>>, <<"createdAt", task.createdAt>>,
     <<"updatedAt", task.updatedAt>>}

HasKey(item, k) == \E p \in item.m : p[1] = k

GetKey(item, k) == (CHOOSE p \in item.m : p[1] = k)[2]

\* The exception data["..."] raises in from_dict, "none" when there is none.
from_dict_error(item) ==
    IF item.t # "obj" THEN "TypeError"
    ELSE IF \E k \in FieldNames : ~HasKey(item, k) THEN "KeyError"
    ELSE "none"

\* from_dict with createdAt and updatedAt taken from each other's key.
from_dict_swapped(item) ==
    Task_init(GetKey(item, "description"), GetKey(item, "id"),
              GetKey(item, "status"), GetKey(item, "updatedAt"),
              GetKey(item, "createdAt"), None, 0, 0)

from_dict(item) ==
    Task_init(GetKey(item, "description"), GetKey(item, "id"),
              GetKey(item, "status"), GetKey(item, "createdAt"),
              GetKey(item, "updatedAt"), None, 0, 0)

\* ------------------------------------------------------------------- file
Missing == [kind |-> "missing", top |-> "none", items |-> <<>>]

NotUtf8 == [kind |-> "bytes", top |-> "none", items |-> <<>>]

NotJson == [kind |-> "text", top |-> "none", items |-> <<>>]

JsonFile(top, items) == [kind |-> "json", top |-> top, items |-> items]

ObjItem(m) == [t |-> "obj", m |-> m]

ScalarItem(t) == [t |-> t, m |-> {}]

json_dump(tasks) ==
    JsonFile("arr", [i \in 1..Len(tasks) |-> ObjItem(to_dict(tasks[i]))])

\* _load_tasks: the exception that leaves it ("none": it returns) ...
load_error(f) ==
    IF f.kind \in {"missing", "text"} THEN "none"
    ELSE IF f.kind = "bytes" THEN "UnicodeDecodeError"
    ELSE IF f.top \notin {"arr", "obj", "str"} THEN "TypeError"
    ELSE IF \E i \in 1..Len(f.items) : from_dict_error(f.items[i]) # "none"
         THEN LET i == CHOOSE j \in 1..Len(f.items) :
                         /\ from_dict_error(f.items[j]) # "none"
                         /\ \A h \in 1..(j - 1) :
                                from_dict_error(f.items[h]) = "none"
              IN  from_dict_error(f.items[i])
    ELSE "none"

\* ... and the collection self.tasks it leaves when it returns.
load_tasks(f) ==
    IF f.kind \in {"missing", "text"} THEN <<>>
    ELSE [i \in 1..Len(f.items) |-> from_dict(f.items[i])]

\* _save_tasks: the file after it, under each outcome of the write.  The
\* file is truncated when it is opened; a write that stops part-way leaves a
\* prefix of the text ("partial"), which may end inside a character of
\* several bytes ("torn").
save_file(tasks, f, io) ==
    CASE io = "ok"      -> json_dump(tasks)
      [] io = "denied"  -> f
      [] io = "partial" -> NotJson
      [] io = "torn"    ->
            IF \E i \in 1..Len(tasks) : tasks[i].description \in NonAscii
            THEN NotUtf8
            ELSE NotJson

save_error(io) == IF io = "ok" THEN "none" ELSE "OSError"

\* ------------------------------------------------------------------ store
\* _find_task that keeps scanning and returns the last match.
find_task_last(tasks, id) ==
    IF \E i \in 1..Len(tasks) : tasks[i].id = id
    THEN CHOOSE i \in 1..Len(tasks) :
            /\ tasks[i].id = id
            /\ \A j \in (i + 1)..Len(tasks) : tasks[j].id # id
    ELSE 0

find_task(tasks, id) ==
    IF \E i \in 1..Len(tasks) : tasks[i].id = id
    THEN CHOOSE i \in 1..Len(tasks) :
            /\ tasks[i].id = id
            /\ \A j \in 1..(i - 1) : tasks[j].id # id
    ELSE 0


NoOut == [msg |-> "none", listed |-> <<>>]

Result(ts, f, e, o, n, is) ==
    [tasks |-> ts, file |-> f, err |-> e, out |-> o, now |-> n, issued |-> is]

\* create_task that inserts the new task at the head of the collection.
create_task_at_head(ts, f, is, description, fresh, c1, c2, io) ==
    LET task == Task_init(description, None, "todo", None, None, fresh, c1, c2)
        new  == <<task>> \o ts
    IN  Result(new, save_file(new, f, io), save_error(io),
               IF io = "ok" THEN [msg |-> "added", listed |-> <<>>]
               ELSE NoOut,
               c2, is \cup {fresh})

\* create_task(description); fresh is the value uuid4() returns, c1 and c2
\* are the two clock readings of Task.__init__.
create_task(ts, f, is, description, fresh, c1, c2, io) ==
    LET task == Task_init(description, None, "todo", None, None, fresh, c1, c2)
        new  == Append(ts, task)
    IN  Result(new, save_file(new, f, io), save_error(io),
               IF io = "ok" THEN [msg |-> "added", listed |-> <<>>]
               ELSE NoOut,
               c2, is \cup {fresh})

NotFound(ts, f, n, is) ==
    Result(ts, f, "none", [msg |-> "not found", listed |-> <<>>], n, is)

\* update_task that refreshes createdAt instead of updatedAt.
update_task_created(ts, f, n, is, id, new_description, c, io) ==
    LET i == find_task(ts, id)
    IN  IF i # 0
        THEN LET new == [ts EXCEPT ![i].description = new_description,
                                   ![i].createdAt = strftime(c)]
             IN  Result(new, save_file(new, f, io), save_error(io),
                        IF io = "ok" THEN [msg |-> "updated", listed |-> <<>>]
                        ELSE NoOut,
                        c, is)
        ELSE NotFound(ts, f, n, is)

\* update_task(uuid, new_description); c is the clock reading.
update_task(ts, f, n, is, id, new_description, c, io) ==
    LET i == find_task(ts, id)
    IN  IF i # 0
        THEN LET new == [ts EXCEPT ![i].description = new_description,
                                   ![i].updatedAt = strftime(c)]
             IN  Result(new, save_file(new, f, io), save_error(io),
                        IF io = "ok" THEN [msg |-> "updated", listed |-> <<>>]
                        ELSE NoOut,
                        c, is)
        ELSE NotFound(ts, f, n, is)

\* list.pop() in place of list.remove(task): the last element goes.
Remove_last(ts, i) == [j \in 1..(Len(ts) - 1) |-> ts[j]]

\* list.remove(task) on the task _find_task returned: Task defines no
\* __eq__, so the first element that is that object goes.
Remove(ts, i) ==
    [j \in 1..(Len(ts) - 1) |-> IF j < i THEN ts[j] ELSE ts[j + 1]]

\* delete_task that puts the task back when the save fails.
delete_task_rollback(ts, f, n, is, id, io) ==
    LET i == find_task(ts, id)
    IN  IF i # 0
        THEN LET new == Remove(ts, i)
             IN  Result(IF io = "ok" THEN new ELSE ts,
                        save_file(new, f, io), save_error(io),
                        IF io = "ok" THEN [msg |-> "deleted", listed |-> <<>>]
                        ELSE NoOut,
                        n, is)
        ELSE NotFound(ts, f, n, is)

\* delete_task without the call of _save_tasks.
delete_task_no_save(ts, f, n, is, id, io) ==
    LET i == find_task(ts, id)
    IN  IF i # 0
        THEN Result(Remove(ts, i), f, "none",
                    [msg |-> "deleted", listed |-> <<>>], n, is)
        ELSE NotFound(ts, f, n, is)

\* delete_task that saves on both branches.
delete_task_always_saves(ts, f, n, is, id, io) ==
    LET i == find_task(ts, id)
        new == IF i # 0 THEN Remove(ts, i) ELSE ts
    IN  Result(new, save_file(new, f, io), save_error(io),
               IF io # "ok" THEN NoOut
               ELSE IF i # 0 THEN [msg |-> "deleted", listed |-> <<>>]
               ELSE [msg |-> "not found", listed |-> <<>>],
               n, is)

\* delete_task(uuid)
delete_task(ts, f, n, is, id, io) ==
    LET i == find_task(ts, id)
    IN  IF i # 0
        THEN LET new == Remove(ts, i)
             IN  Result(new, save_file(new, f, io), save_error(io),
                        IF io = "ok" THEN [msg |-> "deleted", listed |-> <<>>]
                        ELSE NoOut,
                        n, is)
        ELSE NotFound(ts, f, n, is)

\* mark_task with the assignment of update_task left in: the new status
\* goes into the description.
mark_task_description(ts, f, n, is, id, new_status, c, io) ==
    LET i == find_task(ts, id)
    IN  IF i # 0
        THEN LET new == [ts EXCEPT ![i].description = new_status,
                                   ![i].updatedAt = strftime(c)]
             IN  Result(new, save_file(new, f, io), save_error(io),
                        IF io = "ok" THEN [msg |-> "marked", listed |-> <<>>]
                        ELSE NoOut,
                        c, is)
        ELSE NotFound(ts, f, n, is)

\* mark_task that stamps the time the module was loaded, not the time of
\* the call.
mark_task_import_time(ts, f, n, is, id, new_status, c, io) ==
    LET i == find_task(ts, id)
    IN  IF i # 0
        THEN LET new == [ts EXCEPT ![i].status = new_status,
                                   ![i].updatedAt = strftime(0)]
             IN  Result(new, save_file(new, f, io), save_error(io),
                        IF io = "ok" THEN [msg |-> "marked", listed |-> <<>>]
                        ELSE NoOut,
                        c, is)
        ELSE NotFound(ts, f, n, is)

\* mark_task(uuid, new_status); c is the clock reading.
mark_task(ts, f, n, is, id, new_status, c, io) ==
    LET i == find_task(ts, id)
    IN  IF i # 0
        THEN LET new == [ts EXCEPT ![i].status = new_status,
                                   ![i].updatedAt = strftime(c)]
             IN  Result(new, save_file(new, f, io), save_error(io),
                        IF io = "ok" THEN [msg |-> "marked", listed |-> <<>>]
                        ELSE NoOut,
                        c, is)
        ELSE NotFound(ts, f, n, is)

\* list_tasks(status): the tasks it prints, in the order it prints them.
list_tasks(ts, f, n, is, status) ==
    IF Len(ts) = 0
    THEN Result(ts, f, "none", [msg |-> "No tasks available.", listed |-> <<>>],
                n, is)
    ELSE Result(ts, f, "none",
                [msg    |-> "List of Tasks:",
                 listed |-> [i \in 1..Len(ts) |->
                                IF ts[i].status = status THEN ts[i]
                                ELSE ts[i]]],
                n, is)

\* parser.print_help()
print_help(ts, f, n, is) ==
    Result(ts, f, "none", [msg |-> "help", listed |-> <<>>], n, is)

\* An exception raised in main() before any store operation is called.
Raise(ts, f, n, is, e) == Result(ts, f, e, NoOut, n, is)

Commands == {"create", "update", "delete", "mark", "list", "none"}

\* The attributes of the Namespace parse_args() returns for each command.
Namespace(command) ==
    CASE command = "create" -> {"filename", "command", "description"}
      [] command = "update" -> {"filename", "command", "id", "new_description"}
      [] command = "delete" -> {"filename", "command", "id"}
      [] command = "mark"   -> {"filename", "command", "id", "status"}
      [] command = "list"   -> {"filename", "command", "status"}
      [] OTHER              -> {"filename", "command"}

\* match args.command, on the collection ts the TaskManager loaded.
dispatch(ts, f, n, is, command, id, arg, fresh, c1, c2, io) ==
    CASE command = "create" ->
            create_task(ts, f, is, arg, fresh, c1, c2, io)
      [] command = "update" ->
            update_task(ts, f, n, is, id, arg, c1, io)
      [] command = "mark" ->
            IF "new_status" \in Namespace(command)
            THEN mark_task(ts, f, n, is, id, arg, c1, io)
            ELSE Raise(ts, f, n, is, "AttributeError")
      [] command = "list" ->
            list_tasks(ts, f, n, is, arg)
      [] OTHER ->
            print_help(ts, f, n, is)

\* ------------------------------------------------------------------ state
VARIABLES
    file,    \* the backing file
    tasks,   \* self.tasks of the live TaskManager
    pc,      \* "off": no TaskManager yet; "ready": one is live;
             \* "crashed": the last construction or command raised;
             \* "exited": main() returned
    now,     \* the last reading of the clock, in seconds
    issued,  \* the ids uuid4() has returned so far
    err,     \* the exception the last operation raised, "none" if none
    out,     \* what the last operation printed
    last,    \* the last operation and its arguments
    steps,   \* the number of operations so far
    repeat   \* the last operation repeated the one before it

vars == <<file, tasks, pc, now, issued, err, out, last, steps, repeat>>

Op(op, id, arg) == [op |-> op, id |-> id, arg |-> arg]

\* Records found in a stored file: written by earlier runs, or by hand.
Stored(id, description, status, createdAt, updatedAt) ==
    ObjItem(to_dict(Task_init(description, id, status, createdAt, updatedAt,
                              None, 0, 0)))

TaskA == Stored(uuid(1), "buy milk", "todo", strftime(0), strftime(0))

TaskB == Stored(uuid(2), "call bob", "done", strftime(0), strftime(1))

\* A second record with the id of TaskA.
TaskA2 == Stored(uuid(1), "call bob", "in-progress", strftime(0), strftime(0))

\* A record whose status is outside the enumeration.
TaskBogus == Stored(uuid(2), "buy milk", "bogus", strftime(0), strftime(0))

\* A record with a sixth key.
TaskExtra == ObjItem(TaskB.m \cup {<<"priority", "high">>})

\* A record without updatedAt.
TaskShort == ObjItem(TaskB.m \ {<<"updatedAt", strftime(1)>>})

InitFiles ==
    { Missing, NotUtf8, NotJson,
      JsonFile("null", <<>>),
      JsonFile("obj", <<>>),
      JsonFile("obj", <<ScalarItem("str")>>),
      JsonFile("arr", <<>>),
      JsonFile("arr", <<ScalarItem("num")>>),
      JsonFile("arr", <<TaskA>>),
      JsonFile("arr", <<TaskA, TaskB>>),
      JsonFile("arr", <<TaskA, TaskA2>>),
      JsonFile("arr", <<TaskBogus>>),
      JsonFile("arr", <<TaskExtra>>),
      JsonFile("arr", <<TaskShort>>),
      JsonFile("arr", <<TaskA, TaskShort>>) }

\* The ids a file holds: uuid4() returned them in earlier runs.
IdsIn(f) ==
    {GetKey(f.items[i], "id") :
        i \in {h \in 1..Len(f.items) : HasKey(f.items[h], "id")}}

\* The latest second a timestamp of the file names: the clock never goes
\* backwards, so a run starts no earlier.
Latest(f) ==
    LET stamps == {p[2] : p \in {q \in UNION {f.items[i].m : i \in 1..Len(f.items)} :
                                    q[1] \in {"createdAt", "updatedAt"}}}
    IN  IF stamps = {} THEN 0
        ELSE CHOOSE n \in 0..MaxClock :
                /\ \E s \in stamps : strptime(s) = n
                /\ \A s \in stamps : strptime(s) <= n

Init ==
    /\ file \in InitFiles
    /\ tasks = <<>>
    /\ pc = "off"
    /\ now = Latest(file)
    /\ issued = IdsIn(file)
    /\ err = "none"
    /\ out = NoOut
    /\ last = Op("none", None, None)
    /\ steps = 0
    /\ repeat = FALSE

Apply(r) ==
    /\ tasks' = r.tasks
    /\ file' = r.file
    /\ err' = r.err
    /\ out' = r.out
    /\ now' = r.now
    /\ issued' = r.issued

\* A store operation called on the live manager; an exception that leaves
\* it ends the run (IOError is fatal).
Call(r) ==
    /\ Apply(r)
    /\ pc' = IF r.err = "none" THEN "ready" ELSE "crashed"

\* TaskManager(filename): a fresh manager on the file.
TaskManager_init ==
    /\ pc' = IF load_error(file) = "none" THEN "ready" ELSE "crashed"
    /\ tasks' = IF load_error(file) = "none" THEN load_tasks(file) ELSE <<>>
    /\ err' = load_error(file)
    /\ out' = NoOut
    /\ last' = Op("init", None, None)
    /\ UNCHANGED <<file, now, issued>>

\* The ids an operation is called with: the ids in the collection and one
\* that no task has.
NoSuchId == "no-such-id"

IdInputs(ts) == {ts[i].id : i \in 1..Len(ts)} \cup {NoSuchId}

\* The inputs an operation reads only once it has found its task: the
\* ticks of the clock before a reading and the outcome of the write.
TicksIf(reached) == IF reached THEN Ticks ELSE {0}

IOsIf(reached) == IF reached THEN IOOutcomes ELSE {"ok"}

Found(ts, id) == \E i \in 1..Len(ts) : ts[i].id = id

CreateTask ==
    /\ pc = "ready"
    /\ Len(tasks) < MaxTasks
    /\ UUIDs \ issued # {}
    /\ \E description \in Descriptions, d1 \in Ticks, d2 \in Ticks,
          io \in IOOutcomes :
          /\ now + d1 + d2 <= MaxClock
          /\ Call(create_task(tasks, file, issued, description, uuid4(issued),
                              now + d1, now + d1 + d2, io))
          /\ last' = Op("create", None, description)

UpdateTask ==
    /\ pc = "ready"
    /\ \E id \in IdInputs(tasks), new_description \in Descriptions :
        \E d \in TicksIf(Found(tasks, id)), io \in IOsIf(Found(tasks, id)) :
          /\ now + d <= MaxClock
          /\ Call(update_task(tasks, file, now, issued, id, new_description,
                              now + d, io))
          /\ last' = Op("update", id, new_description)

DeleteTask ==
    /\ pc = "ready"
    /\ \E id \in IdInputs(tasks) :
        \E io \in IOsIf(Found(tasks, id)) :
          /\ Call(delete_task(tasks, file, now, issued, id, io))
          /\ last' = Op("delete", id, None)

MarkTask ==
    /\ pc = "ready"
    /\ \E id \in IdInputs(tasks), new_status \in Statuses :
        \E d \in TicksIf(Found(tasks, id)), io \in IOsIf(Found(tasks, id)) :
          /\ now + d <= MaxClock
          /\ Call(mark_task(tasks, file, now, issued, id, new_status,
                            now + d, io))
          /\ last' = Op("mark", id, new_status)

ListTasks ==
    /\ pc = "ready"
    /\ \E status \in Statuses \cup {None} :
          /\ Call(list_tasks(tasks, file, now, issued, status))
          /\ last' = Op("list", None, status)

\* The arguments a command line gives each command, None where it takes none.
Args(command) ==
    CASE command \in {"create", "update"} -> Descriptions
      [] command = "mark" -> Statuses
      [] command = "list" -> Statuses \cup {None}
      [] OTHER -> {None}

Ids(command, ts) ==
    IF command \in {"update", "delete", "mark"} THEN IdInputs(ts) ELSE {None}

\* Whether the run of a command on the loaded collection ts gets as far as
\* reading the clock and writing the file.
Reaches(command, id, ts) ==
    \/ command = "create"
    \/ command = "update" /\ Found(ts, id)

\* main(): one run of the program, from parse_args() to its end.  The
\* TaskManager is constructed first; an exception there ends the run.
Main ==
    \E command \in Commands :
        IF load_error(file) # "none"
        THEN /\ Apply(Raise(<<>>, file, now, issued, load_error(file)))
             /\ pc' = "crashed"
             /\ last' = Op("main " \o command, None, None)
        ELSE \E id \in Ids(command, load_tasks(file)), arg \in Args(command) :
              \E d1 \in TicksIf(Reaches(command, id, load_tasks(file))),
                 d2 \in TicksIf(command = "create"),
                 io \in IOsIf(Reaches(command, id, load_tasks(file))) :
                LET ts == load_tasks(file)
                    r  == dispatch(ts, file, now, issued, command, id, arg,
                                   IF command = "create" THEN uuid4(issued)
                                   ELSE None,
                                   now + d1, now + d1 + d2, io)
                IN  /\ now + d1 + d2 <= MaxClock
                    /\ command = "create" =>
                          (Len(ts) < MaxTasks /\ UUIDs \ issued # {})
                    /\ Apply(r)
                    /\ pc' = IF r.err = "none" THEN "exited" ELSE "crashed"
                    /\ last' = Op("main " \o command, id, arg)

\* The files a run of the store leaves, and no file at all.
StoreFiles ==
    { Missing,
      JsonFile("arr", <<>>),
      JsonFile("arr", <<TaskA>>),
      JsonFile("arr", <<TaskA, TaskB>>) }

\* A start from a missing file or from a file the store wrote.
InitStore ==
    /\ Init
    /\ file \in StoreFiles

\* One more operation, within the bound on the length of a run.
Step ==
    /\ steps < MaxSteps
    /\ steps' = steps + 1

\* Whether the operation is the one before it again, arguments included.
Again == repeat' = (last' = last)

Next ==
    \/ Step /\ TaskManager_init /\ Again
    \/ Step /\ CreateTask /\ Again
    \/ Step /\ UpdateTask /\ Again
    \/ Step /\ DeleteTask /\ Again
    \/ Step /\ MarkTask /\ Again
    \/ Step /\ ListTasks /\ Again
    \/ Step /\ Main /\ Again

Spec == Init /\ [][Next]_vars

SpecStore == InitStore /\ [][Next]_vars

\* ----------------------------------------------------------- properties
\* The collection an operation starts from: the live manager's, or the one
\* a run of main() loads.
IsMain == last'.op \in {"main create", "main update", "main delete",
                        "main mark", "main list", "main none"}

Pre == IF IsMain THEN load_tasks(file) ELSE tasks

\* The operation was called: a run of main() got past the load.
Called(op) ==
    \/ last'.op = op
    \/ last'.op = "main " \o op /\ load_error(file) = "none"

IdsOf(ts) == {ts[i].id : i \in 1..Len(ts)}

SameTask(a, b) ==
    /\ a.id = b.id
    /\ a.description = b.description
    /\ a.status = b.status
    /\ a.createdAt = b.createdAt
    /\ a.updatedAt = b.updatedAt

SameCollection(a, b) ==
    /\ Len(a) = Len(b)
    /\ \A i \in 1..Len(a) : SameTask(a[i], b[i])

\* C1: for every collection the store can hold, saving it and loading the
\* saved file into a fresh manager raises nothing and yields a collection of
\* the same length with, position by position, the same id, description,
\* status, createdAt and updatedAt.
C1_RoundTrip ==
    LET saved == save_file(tasks, file, "ok")
    IN  /\ load_error(saved) = "none"
        /\ SameCollection(load_tasks(saved), tasks)

\* A fresh manager has loaded a two-task file that an update saved, one
\* task with different timestamps.
C1_Witness ==
    /\ last.op = "init"
    /\ steps = 3
    /\ pc = "ready"
    /\ Len(tasks) = 2
    /\ file = json_dump(tasks)
    /\ tasks[1].id = uuid(1)
    /\ tasks[1].description = "call bob"
    /\ tasks[1].createdAt # tasks[1].updatedAt
    /\ tasks[2].id = uuid(2)

\* C2: create_task(D) appends exactly one task at the end, with description
\* D, status todo and an id that no task already in the collection has; the
\* tasks already present keep their fields and their order.
C2_CreateAppends ==
    [][Called("create") =>
        /\ Len(tasks') = Len(Pre) + 1
        /\ SameCollection(SubSeq(tasks', 1, Len(Pre)), Pre)
        /\ tasks'[Len(tasks')].description = last'.arg
        /\ tasks'[Len(tasks')].status = "todo"
        /\ tasks'[Len(tasks')].id \notin IdsOf(Pre)]_vars

\* create_task has appended a second task to a collection of one.
C2_Witness ==
    /\ last.op = "create"
    /\ out.msg = "added"
    /\ Len(tasks) = 2
    /\ tasks[2].status = "todo"
    /\ tasks[2].description = last.arg
    /\ tasks[1].id # tasks[2].id

\* C3 (as claimed): a task create_task has just made has createdAt equal to
\* updatedAt, whatever the clock did while it was made.
C3_CreatedEqualsUpdated ==
    (/\ last.op \in {"create", "main create"}
     /\ err \in {"none", "OSError"})
        => tasks[Len(tasks)].createdAt = tasks[Len(tasks)].updatedAt

\* C4: update_task on an id in the collection keeps the length and order,
\* leaves every other task as it was, and on the task it changes keeps id,
\* status and createdAt.
C4_UpdateFrame ==
    [][(Called("update") /\ last'.id \in IdsOf(Pre)) =>
        /\ Len(tasks') = Len(Pre)
        /\ \E i \in 1..Len(Pre) :
              /\ Pre[i].id = last'.id
              /\ tasks'[i].id = Pre[i].id
              /\ tasks'[i].status = Pre[i].status
              /\ tasks'[i].createdAt = Pre[i].createdAt
              /\ tasks'[i].description = last'.arg
              /\ tasks'[i].updatedAt = strftime(now')
              /\ \A j \in 1..Len(Pre) : j # i => SameTask(tasks'[j], Pre[j])]_vars

\* update_task has changed the description of one task of two, a tick of
\* the clock after the task was made.
C4_Witness ==
    /\ last.op = "update"
    /\ out.msg = "updated"
    /\ Len(tasks) = 2
    /\ \E i \in 1..2 :
          /\ tasks[i].id = last.id
          /\ tasks[i].description = last.arg
          /\ tasks[i].createdAt # tasks[i].updatedAt

\* C5: update_task, delete_task and mark_task on an id that no task has
\* leave the collection and the file as they were (a missing file stays
\* missing), report not-found and raise nothing.
C5_NotFoundNoOp ==
    [][((Called("update") \/ last'.op \in {"delete", "mark"})
            /\ last'.id \notin IdsOf(Pre)) =>
        /\ SameCollection(tasks', Pre)
        /\ file' = file
        /\ out'.msg = "not found"
        /\ err' = "none"]_vars

\* delete_task has reported not-found on a manager whose file is not the
\* serialization of its collection.
C5_Witness ==
    /\ last.op = "delete"
    /\ out.msg = "not found"
    /\ Len(tasks) = 1
    /\ last.id \notin IdsOf(tasks)
    /\ file # json_dump(tasks)

\* C6 (as claimed): list_tasks with a status filter prints only the tasks
\* whose status equals the filter, in stored order; with no filter it prints
\* all the tasks in stored order.
C6_ListFilters ==
    LET Matches(t) == t.status = last.arg
    IN  (last.op \in {"list", "main list"} /\ err = "none") =>
            out.listed = IF last.arg = None THEN tasks
                         ELSE SelectSeq(tasks, Matches)

\* C7 (as claimed): the delete command, run on a file that holds a task
\* with the given id, calls Delete: it raises nothing, reports success or
\* not-found, takes one task out of the collection and leaves the file
\* holding the collection without it.
C7_DeleteCommandDeletes ==
    [][(/\ last'.op = "main delete"
        /\ load_error(file) = "none"
        /\ last'.id \in IdsOf(load_tasks(file))) =>
        /\ err' = "none"
        /\ out'.msg \in {"deleted", "not found"}
        /\ Len(tasks') = Len(load_tasks(file)) - 1
        /\ load_error(file') = "none"
        /\ SameCollection(load_tasks(file'), tasks')]_vars

\* C8 (as claimed): the mark command, for every status of the enumeration,
\* run on a file that holds a task with the given id, raises nothing and
\* leaves that task with the given status.
C8_MarkCommandMarks ==
    [][(/\ last'.op = "main mark"
        /\ load_error(file) = "none"
        /\ last'.id \in IdsOf(load_tasks(file))) =>
        /\ err' = "none"
        /\ \E i \in 1..Len(tasks') :
              /\ tasks'[i].id = last'.id
              /\ tasks'[i].status = last'.arg]_vars

\* A file that parses as JSON and is not an array of objects that each
\* carry the five fields.
Malformed(f) ==
    /\ f.kind = "json"
    /\ \/ f.top # "arr"
       \/ \E i \in 1..Len(f.items) :
             \/ f.items[i].t # "obj"
             \/ \E k \in FieldNames : \A p \in f.items[i].m : p[1] # k

\* C9 (as claimed): constructing the TaskManager on a malformed file raises
\* nothing and starts with an empty collection.
C9_MalformedIsEmpty ==
    (last.op = "init" /\ Malformed(file)) =>
        /\ err = "none"
        /\ pc = "ready"
        /\ tasks = <<>>

\* A file that does not exist, or whose contents are not valid JSON.
NotValidJson(f) == f.kind \in {"missing", "bytes", "text"}

\* C10 (as claimed): Load on a missing file, or on contents that are not
\* valid JSON, raises nothing, leaves the file alone and yields an empty
\* collection; a create_task after it leaves the file holding exactly the
\* new task.
C10_LoadOfNoJsonIsEmpty ==
    [][/\ (last'.op = "init" /\ NotValidJson(file)) =>
            /\ err' = "none"
            /\ pc' = "ready"
            /\ tasks' = <<>>
            /\ file' = file
       /\ (/\ last.op = "init"
           /\ NotValidJson(file)
           /\ last'.op = "create"
           /\ err' = "none") =>
            /\ Len(tasks') = 1
            /\ tasks'[1].description = last'.arg
            /\ file' = JsonFile("arr", <<ObjItem(to_dict(tasks'[1]))>>)]_vars

\* The save step of a create, update, delete or mark has failed with an
\* I/O error.
SaveFailed ==
    /\ last'.op \in {"create", "update", "delete", "mark",
                     "main create", "main update"}
    /\ err' = "OSError"

\* The in-memory collection after the step holds the mutation of the call.
MutationKept ==
    CASE last'.op \in {"create", "main create"} ->
            /\ Len(tasks') = Len(Pre) + 1
            /\ SameCollection(SubSeq(tasks', 1, Len(Pre)), Pre)
            /\ tasks'[Len(tasks')].description = last'.arg
      [] last'.op \in {"update", "main update"} ->
            /\ Len(tasks') = Len(Pre)
            /\ \E i \in 1..Len(Pre) :
                  /\ Pre[i].id = last'.id
                  /\ tasks'[i].description = last'.arg
                  /\ tasks'[i].updatedAt = strftime(now')
      [] last'.op = "delete" ->
            /\ Len(tasks') = Len(Pre) - 1
            /\ \E i \in 1..Len(Pre) :
                  /\ Pre[i].id = last'.id
                  /\ tasks' = Remove(Pre, i)
      [] last'.op = "mark" ->
            /\ Len(tasks') = Len(Pre)
            /\ \E i \in 1..Len(Pre) :
                  /\ Pre[i].id = last'.id
                  /\ tasks'[i].status = last'.arg
                  /\ tasks'[i].updatedAt = strftime(now')
      [] OTHER -> TRUE

\* The call wrote the values its task (the first with the id) already had:
\* the same description or status, within the second of its updatedAt.
WroteSameValues ==
    /\ last'.op \in {"update", "main update", "mark"}
    /\ \E i \in 1..Len(Pre) :
          /\ Pre[i].id = last'.id
          /\ \A j \in 1..(i - 1) : Pre[j].id # last'.id
          /\ Pre[i].updatedAt = strftime(now')
          /\ IF last'.op = "mark" THEN Pre[i].status = last'.arg
             ELSE Pre[i].description = last'.arg

\* C11 (as claimed): when the save step fails with an I/O error, the error
\* reaches the caller, the collection keeps the mutation, and the collection
\* differs from what the file held before the operation.
C11_FailedSaveDiverges ==
    [][SaveFailed =>
        /\ pc' = "crashed"
        /\ MutationKept
        /\ ~SameCollection(tasks', load_tasks(file))]_vars

\* C11 (amended): when the save step fails with an I/O error, the error
\* reaches the caller and the collection keeps the mutation; it then differs
\* from what the file held before the operation, unless the call was an
\* update_task or mark_task that wrote the values the task already had.
C11_FailedSaveKeepsMutation ==
    [][SaveFailed =>
        /\ pc' = "crashed"
        /\ MutationKept
        /\ load_error(file) = "none"
        /\ SameCollection(tasks', load_tasks(file)) <=> WroteSameValues]_vars

\* The save of a delete_task has failed: one task is left in memory, the
\* file still holds two.
C11_Witness ==
    /\ last.op = "delete"
    /\ err = "OSError"
    /\ pc = "crashed"
    /\ Len(tasks) = 1
    /\ file.kind = "json"
    /\ Len(file.items) = 2

\* The first position of Pre that holds the id of the call.
Target ==
    CHOOSE i \in 1..Len(Pre) :
        /\ Pre[i].id = last'.id
        /\ \A j \in 1..(i - 1) : Pre[j].id # last'.id

\* C12: every mark_task(id, s) on an existing task leaves its status equal
\* to s and its updatedAt no earlier than it was; on the second of two such
\* calls in a row the status was s already and stays s.
C12_MarkTwice ==
    [][(last'.op = "mark" /\ last'.id \in IdsOf(tasks)) =>
        /\ tasks'[Target].status = last'.arg
        /\ strptime(tasks'[Target].updatedAt)
              >= strptime(tasks[Target].updatedAt)
        /\ repeat' => tasks[Target].status = last'.arg]_vars

\* mark_task has run twice in a row with the same id and status, the clock
\* ticking before the second call.
C12_Witness ==
    /\ repeat
    /\ last.op = "mark"
    /\ out.msg = "marked"
    /\ now = 1
    /\ \E i \in 1..Len(tasks) :
          /\ tasks[i].id = last.id
          /\ tasks[i].status = last.arg
          /\ tasks[i].createdAt = strftime(0)
          /\ tasks[i].updatedAt = strftime(1)

\* C13 (as claimed): the status of every task in the collection is a
\* member of {todo, in-progress, done} in every reachable state, the state
\* right after the load of a file that Load accepts included.
C13_StatusInEnumeration ==
    \A i \in 1..Len(tasks) : tasks[i].status \in Statuses

\* C14: started from a missing file or from a file the store wrote, no two
\* tasks of the collection have the same id, whatever operations and
\* reloads follow.
C14_IdsDistinct ==
    \A i \in 1..Len(tasks) : \A j \in 1..Len(tasks) :
        i # j => tasks[i].id # tasks[j].id

\* Two create_task calls in a row have left two tasks.
C14_Witness ==
    /\ last.op = "create"
    /\ repeat
    /\ Len(tasks) = 2
    /\ tasks[1].description = tasks[2].description
    /\ tasks[1].id # tasks[2].id

\* C15: started from a missing file or from a file the store wrote, with a
\* clock that never goes backwards, every task has createdAt no later than
\* updatedAt, through updates, marks, saves and reloads.
C15_CreatedBeforeUpdated ==
    \A i \in 1..Len(tasks) :
        strptime(tasks[i].createdAt) <= strptime(tasks[i].updatedAt)

\* A fresh manager has reloaded a task that was updated or marked a second
\* after it was created.
C15_Witness ==
    /\ last.op = "init"
    /\ steps = 3
    /\ pc = "ready"
    /\ Len(tasks) >= 1
    /\ file = json_dump(tasks)
    /\ tasks[1].createdAt = strftime(0)
    /\ tasks[1].updatedAt = strftime(1)
    /\ tasks[1].status = "done"

\* C16: mark_task(id, s) on an id in the collection, whatever the current
\* status, sets the status of one task with that id to s and its updatedAt
\* to the clock reading, keeps its id, description and createdAt, and leaves
\* every other task, the length and the order as they were.
C16_MarkFrame ==
    [][(last'.op = "mark" /\ last'.id \in IdsOf(tasks)) =>
        /\ Len(tasks') = Len(tasks)
        /\ \E i \in 1..Len(tasks) :
              /\ tasks[i].id = last'.id
              /\ tasks'[i].status = last'.arg
              /\ tasks'[i].updatedAt = strftime(now')
              /\ tasks'[i].id = tasks[i].id
              /\ tasks'[i].description = tasks[i].description
              /\ tasks'[i].createdAt = tasks[i].createdAt
              /\ \A j \in 1..Len(tasks) :
                    j # i => SameTask(tasks'[j], tasks[j])]_vars

\* mark_task has moved the second of two tasks from done back to todo.
C16_Witness ==
    /\ last.op = "mark"
    /\ out.msg = "marked"
    /\ last.arg = "todo"
    /\ Len(tasks) = 2
    /\ tasks[2].id = last.id
    /\ tasks[2].status = "todo"
    /\ tasks[2].description = "call bob"
    /\ tasks[1].id # last.id

\* C17: after a create, update, delete or mark that raises nothing, the
\* file is the serialization of the collection in memory and loads as an
\* equal collection; a call that found no task is included when the file
\* was the serialization of the collection before it.
C17_FileMirrorsMemory ==
    [][(/\ \/ Called("create")
           \/ Called("update")
           \/ last'.op \in {"delete", "mark"}
        /\ err' = "none"
        /\ \/ last'.op \in {"create", "main create"}
           \/ last'.id \in IdsOf(Pre)
           \/ file = json_dump(Pre)) =>
        /\ file' = json_dump(tasks')
        /\ load_error(file') = "none"
        /\ SameCollection(load_tasks(file'), tasks')]_vars

\* delete_task has rewritten a file of two tasks with the one task left.
C17_Witness ==
    /\ last.op = "delete"
    /\ out.msg = "deleted"
    /\ err = "none"
    /\ Len(tasks) = 1
    /\ file = json_dump(tasks)
    /\ tasks[1].id # last.id

\* The place of an id in the order in which uuid4() issues ids.
Issue(id) == CHOOSE k \in 1..MaxUUIDs : uuid(k) = id

C19_FirstMatchWins ==
    [][(/\ \/ Called("update")
           \/ last'.op \in {"delete", "mark"}
        /\ \E i \in 1..Len(Pre) : \E j \in 1..Len(Pre) :
              i # j /\ Pre[i].id = last'.id /\ Pre[j].id = last'.id) =>
        CASE last'.op = "delete" ->
                /\ Len(tasks') = Len(Pre) - 1
                /\ \A j \in 1..Len(tasks') :
                      SameTask(tasks'[j],
                               IF j < Target THEN Pre[j] ELSE Pre[j + 1])
          [] last'.op = "mark" ->
                /\ Len(tasks') = Len(Pre)
                /\ tasks'[Target].status = last'.arg
                /\ \A j \in 1..Len(Pre) :
                      j # Target => SameTask(tasks'[j], Pre[j])
          [] OTHER ->
                /\ Len(tasks') = Len(Pre)
                /\ tasks'[Target].description = last'.arg
                /\ \A j \in 1..Len(Pre) :
                      j # Target => SameTask(tasks'[j], Pre[j])]_vars

\* delete_task has removed the first of two tasks with the same id; the
\* second is still there.
C19_Witness ==
    /\ last.op = "delete"
    /\ out.msg = "deleted"
    /\ Len(tasks) = 1
    /\ tasks[1].id = last.id
    /\ tasks[1].description = "call bob"
    /\ tasks[1].status = "in-progress"

\* A save has stopped after the file was opened for writing and before the
\* whole serialization was written.
Interrupted ==
    /\ SaveFailed
    /\ file' # file

\* C20 (as claimed): after a save that stops part-way the file holds
\* neither the collection saved before nor the new one, and the next Load
\* of it raises nothing and starts with an empty collection, so the tasks
\* saved earlier are lost.
C20_InterruptedSaveLoadsEmpty ==
    [][Interrupted =>
        /\ file' # json_dump(tasks')
        /\ file'.kind # "json"
        /\ load_error(file') = "none"
        /\ load_tasks(file') = <<>>]_vars

====
